---------------------------- MODULE Spec2Model ----------------------------
(***************************************************************************)
(* The NFL prediction pool (src/main.py): the category catalogs and the    *)
(* option lists built from them, the two save functions save_selection and *)
(* save_selection_to_gsheets, and the "Save Predictions" handler.          *)
(* Further down: load_data and the tabs drawn from the category files, the *)
(* names as they are typed, and the scoring of predictions_2024.csv.       *)
(*                                                                         *)
(* Text is a sequence of character codes, so that formatting an option,    *)
(* splitting it again and comparing labels are computed as Python does.    *)
(* Points are natural numbers (the catalogs' points are small numbers and  *)
(* f"{x:g}" prints a whole number without a decimal point).                *)
(***************************************************************************)
EXTENDS Integers, Sequences, FiniteSets, TLC

VARIABLES
    catalog,      \* afc_df .. worst_record_df: table name -> rows <<selection, points>>
    worksheet,    \* rows of the remote worksheet "predictions"
    updated_df,   \* the table the last save_selection returned
    clock,        \* datetime.now(), in seconds
    saved,        \* history: [local, remote] the names whose save succeeded there
    run,          \* what the last operation did (arguments, calls, result, messages)
    table,        \* catalog ordering: the category table given to the option builder
    options,      \* catalog ordering: the option list built from table
    files,        \* catalog loading: the state of each file under categories/
    page,         \* catalog loading: what one run of the script produced
    predictions_2024_df,  \* scoring: the rows of predictions_2024.csv
    scoring_results,      \* scoring: the leaderboard entries, as displayed
    user_details,         \* scoring: the detailed breakdown that is shown
    environ,      \* odds: BETFAIR_APP_KEY, BETFAIR_USERNAME, BETFAIR_PASSWORD
    betfair,      \* odds: where main() is, the BetfairAPI object and the locals
    requests,     \* odds: the requests sent so far, each with its response
    csv           \* odds: the tables written to betfair_superbowl_odds.csv

vars == <<catalog, worksheet, updated_df, clock, saved, run, table, options,
          files, page, predictions_2024_df, scoring_results, user_details,
          environ, betfair, requests, csv>>

\* the variables of the form and the saves, of the catalog files, of the 2024 results
saving == <<catalog, worksheet, updated_df, clock, saved, run, table, options>>
loading == <<files, page>>
scoring == <<predictions_2024_df, scoring_results, user_details>>
fetching == <<environ, betfair, requests, csv>>

\* nothing loaded from files, nothing scored
NotLoading == files = <<>> /\ page = <<>>
NotScoring == predictions_2024_df = <<>> /\ scoring_results = <<>> /\ user_details = <<>>
NotFetching == environ = <<>> /\ betfair = <<>> /\ requests = <<>> /\ csv = <<>>

--------------------------------------------------------------------------
(* Text *)

\* " - ", "**", "*", " (", " points*", "-- Select a team --" as character codes
SepDash == <<32, 45, 32>>
Bold == <<42, 42>>
Star == <<42>>
SepParen == <<32, 40>>
PointsSuffix == <<32, 112, 116, 115, 42>>
Placeholder == <<45, 45>>

IsPrefixAt(s, i, p) ==
    /\ i + Len(p) - 1 <= Len(s)
    /\ \A k \in 1..Len(p) : s[i + k - 1] = p[k]

\* the index where sep first occurs in s, 0 when it does not occur
FirstIndex(s, sep) ==
    IF \E i \in 1..Len(s) : IsPrefixAt(s, i, sep)
    THEN CHOOSE i \in 1..Len(s) :
            /\ IsPrefixAt(s, i, sep)
            /\ \A j \in 1..(i - 1) : ~IsPrefixAt(s, j, sep)
    ELSE 0

\* s.split(sep)[0]
SplitHead(s, sep) ==
    LET i == FirstIndex(s, sep) IN IF i = 0 THEN s ELSE SubSeq(s, 1, i - 1)

\* s.split(sep)[1], <<>> standing for the IndexError when sep does not occur
SplitSecond(s, sep) ==
    LET i == FirstIndex(s, sep) IN
    IF i = 0 THEN <<>>
    ELSE SplitHead(SubSeq(s, i + Len(sep), Len(s)), sep)

RECURSIVE Remove(_, _)
\* s.replace(old, "")
Remove(s, old) ==
    IF s = <<>> THEN <<>>
    ELSE IF IsPrefixAt(s, 1, old) THEN Remove(SubSeq(s, Len(old) + 1, Len(s)), old)
    ELSE <<Head(s)>> \o Remove(Tail(s), old)

RECURSIVE Digits(_)
\* f"{n:g}" of a whole number
Digits(n) == IF n < 10 THEN <<48 + n>> ELSE Digits(n \div 10) \o <<48 + (n % 10)>>

RECURSIVE ToNumber(_)
\* float(text) of a digit string; -1 stands for the ValueError
ToNumber(s) ==
    IF s = <<>> THEN -1
    ELSE IF \E k \in 1..Len(s) : s[k] < 48 \/ s[k] > 57 THEN -1
    ELSE IF Len(s) = 1 THEN s[1] - 48
    ELSE 10 * ToNumber(SubSeq(s, 1, Len(s) - 1)) + (s[Len(s)] - 48)

\* Python's str comparison: by code point, a proper prefix first
StrLess(a, b) ==
    \E i \in 1..(Len(a) + 1) :
        /\ \A k \in 1..(i - 1) : k <= Len(b) /\ a[k] = b[k]
        /\ \/ i = Len(a) + 1 /\ Len(b) >= i
           \/ i <= Len(a) /\ i <= Len(b) /\ a[i] < b[i]

--------------------------------------------------------------------------
(* Catalog ordering and the option list *)

Selection(row) == row[1]
Points(row) == row[2]

\* a sort that compares the points as they are displayed, as text
RowBeforeAsText(r, s) ==
    \/ StrLess(Digits(Points(r)), Digits(Points(s)))
    \/ Points(r) = Points(s) /\ StrLess(Selection(r), Selection(s))

\* the sort key ['points', 'selection'], ascending
RowBefore(r, s) ==
    \/ Points(r) < Points(s)
    \/ Points(r) = Points(s) /\ StrLess(Selection(r), Selection(s))

RECURSIVE InsertRow(_, _)
InsertRow(sorted, r) ==
    IF sorted = <<>> THEN <<r>>
    ELSE IF RowBefore(r, Head(sorted)) THEN <<r>> \o sorted
    ELSE <<Head(sorted)>> \o InsertRow(Tail(sorted), r)

RECURSIVE SortValues(_)
\* df.sort_values(['points', 'selection'], ascending=[True, True]); stable
SortValues(df) ==
    IF df = <<>> THEN <<>>
    ELSE InsertRow(SortValues(SubSeq(df, 1, Len(df) - 1)), df[Len(df)])

\* f"**{row['selection']}** - *{points_display} points*"
OptionText(row) ==
    Bold \o Selection(row) \o Bold \o SepDash \o Star \o Digits(Points(row)) \o PointsSuffix

\* the option list of one category tab: the placeholder, then one option per sorted row
BuildOptions(df) ==
    LET sorted == SortValues(df) IN
    <<Placeholder>> \o [i \in 1..Len(sorted) |-> OptionText(sorted[i])]

\* selected_x_raw.split(" - ")[0].replace("**", "")
SelectedLabel(raw) == Remove(SplitHead(raw, SepDash), Bold)

\* float(selected_x_raw.split(" - ")[1].replace("*", "").split(" ")[0])
SelectedPoints(raw) == ToNumber(SplitHead(Remove(SplitSecond(raw, SepDash), Star), <<32>>))

--------------------------------------------------------------------------
(* The catalogs *)

Tables == {"afc", "nfc", "mvp", "dpoy", "oroy", "dark_horse", "playoff_miss", "worst_record"}

\* the category written to each record, in the order the rows are appended
CategoryNames ==
    <<"AFC Winner", "NFC Winner", "Super Bowl Winner", "MVP", "DPOY", "OROY",
      "Dark Horse", "Underperformer", "Worst Record">>

\* the save functions' parameters, in the same order
Params ==
    <<"afc", "nfc", "sb", "mvp", "dpoy", "oroy", "dark_horse", "playoff_miss", "worst_record">>

\* labels: KC BU | PH DE | JA LJ | TJ MG | AJ CW, and ?? which no catalog holds
KC == <<75, 67>>
BU == <<66, 85>>
PH == <<80, 72>>
DE == <<68, 69>>
JA == <<74, 65>>
LJ == <<76, 74>>
TJ == <<84, 74>>
MG == <<77, 71>>
AJ == <<65, 74>>
CW == <<67, 87>>
Unknown == <<63, 63>>

\* the successive contents of the category files as load_data reads them: the same
\* labels (unique within a table, the conferences disjoint), different points
CatalogFiles ==
    << [t \in Tables |->
        CASE t = "afc" -> <<<<KC, 1>>, <<BU, 2>>>>
          [] t = "nfc" -> <<<<PH, 3>>, <<DE, 1>>>>
          [] t = "mvp" -> <<<<LJ, 2>>, <<JA, 2>>>>
          [] t = "dpoy" -> <<<<TJ, 1>>, <<MG, 4>>>>
          [] t = "oroy" -> <<<<CW, 5>>, <<AJ, 3>>>>
          [] t = "dark_horse" -> <<<<DE, 2>>, <<BU, 6>>>>
          [] t = "playoff_miss" -> <<<<KC, 7>>, <<PH, 7>>>>
          [] OTHER -> <<<<BU, 9>>, <<DE, 8>>>> ],
      [t \in Tables |->
        CASE t = "afc" -> <<<<KC, 4>>, <<BU, 3>>>>
          [] t = "nfc" -> <<<<PH, 2>>, <<DE, 5>>>>
          [] t = "mvp" -> <<<<LJ, 1>>, <<JA, 6>>>>
          [] t = "dpoy" -> <<<<TJ, 8>>, <<MG, 2>>>>
          [] t = "oroy" -> <<<<CW, 4>>, <<AJ, 12>>>>
          [] t = "dark_horse" -> <<<<DE, 3>>, <<BU, 3>>>>
          [] t = "playoff_miss" -> <<<<KC, 5>>, <<PH, 6>>>>
          [] OTHER -> <<<<BU, 7>>, <<DE, 10>>>> ] >>

\* a lookup that gives 0 points for a label the table does not hold
PointsWhereOrZero(df, label) ==
    LET hits == SelectSeq(df, LAMBDA r : Selection(r) = label)
    IN  IF hits = <<>> THEN <<0>> ELSE [i \in 1..Len(hits) |-> Points(hits[i])]

\* a lookup that takes row 0 of the table instead of row 0 of the matching rows
PointsWhereFirstRow(df, label) ==
    IF \E k \in DOMAIN df : Selection(df[k]) = label THEN <<Points(df[1])>> ELSE <<>>

\* df[df['selection'] == label]['points']: the points of the matching rows, in order
PointsWhere(df, label) ==
    LET hits == SelectSeq(df, LAMBDA r : Selection(r) = label)
    IN  [i \in 1..Len(hits) |-> Points(hits[i])]

\* the nine lookups of a save, in order; <<>> where .iloc[0] raises IndexError
Lookups(cat, picks) ==
    <<PointsWhere(cat["afc"], picks["afc"]),
      PointsWhere(cat["nfc"], picks["nfc"]),
      IF picks["sb"] = picks["afc"]
          THEN PointsWhere(cat["afc"], picks["sb"])
          ELSE PointsWhere(cat["nfc"], picks["sb"]),
      PointsWhere(cat["mvp"], picks["mvp"]),
      PointsWhere(cat["dpoy"], picks["dpoy"]),
      PointsWhere(cat["oroy"], picks["oroy"]),
      PointsWhere(cat["dark_horse"], picks["dark_horse"]),
      PointsWhere(cat["playoff_miss"], picks["playoff_miss"]),
      PointsWhere(cat["worst_record"], picks["worst_record"])>>

LookupRaises(cat, picks) ==
    LET found == Lookups(cat, picks) IN \E i \in 1..9 : found[i] = <<>>

\* new_rows: one record per category, all with the same timestamp
NewRows(cat, name, picks, now) ==
    LET found == Lookups(cat, picks) IN
    [i \in 1..9 |->
        [name |-> name, category |-> CategoryNames[i],
         points |-> found[i][1], timestamp |-> now]]

\* existing[existing['name'] != name]
WithoutUser(rows, name) == SelectSeq(rows, LAMBDA r : r.name # name)

--------------------------------------------------------------------------
(* save_selection *)

\* load_selections(): always a new, empty table with the four columns
LoadSelections == <<>>

\* save_selection: [raised, df]; raised when a lookup's .iloc[0] raises IndexError
SaveSelection(cat, name, picks, now) ==
    LET selections_df == WithoutUser(LoadSelections, name) IN
    IF LookupRaises(cat, picks)
    THEN [raised |-> TRUE, df |-> <<>>]
    ELSE [raised |-> FALSE, df |-> selections_df \o NewRows(cat, name, picks, now)]

--------------------------------------------------------------------------
(* save_selection_to_gsheets *)

\* a key absent from the gsheets section of secrets.toml
Absent == "<absent>"

RequiredFields == <<"type", "project_id", "private_key", "client_email">>

\* a check that takes an empty value for a credential
MissingFieldsAbsentOnly(cfg) == SelectSeq(RequiredFields, LAMBDA f : cfg[f] = Absent)

\* [field for field in required_fields if not gsheets_config.get(field)]
MissingFields(cfg) == SelectSeq(RequiredFields, LAMBDA f : cfg[f] \in {Absent, ""})

Msg(text, detail) == [text |-> text, detail |-> detail]

\* the except branch: the message chosen by what str(e) contains, in the code's order
ErrorMessage(e) ==
    IF "Public Spreadsheet cannot be written to" \in e
        THEN Msg("Cannot write to public sheet", <<>>)
    ELSE IF "Forbidden" \in e
        THEN Msg("Access denied", <<>>)
    ELSE IF "not found" \in e
        THEN Msg("Spreadsheet or worksheet not found", <<>>)
    ELSE Msg("Error saving to Google Sheets", <<>>)

\* what str(e) of the IndexError of .iloc[0] contains: none of the three phrases
IndexError == {}

\* a read that brings the rows back without their points
ExistingDataNoPoints(sheet, env) ==
    IF env.read = "raise" THEN <<>> ELSE [k \in DOMAIN sheet |-> [sheet[k] EXCEPT !.points = 0]]

\* conn.read(...) as the function uses it: the rows, or none when the read raises
\* (or the sheet is empty)
ExistingData(sheet, env) == IF env.read = "raise" THEN <<>> ELSE sheet

\* save_selection_to_gsheets: [ok, msg, calls, sheet], calls being the worksheet
\* requests it issued and sheet the worksheet afterwards
SaveSelectionToGsheets(cat, sheet, name, picks, now, env) ==
    IF ~env.configured
        THEN [ok |-> FALSE, calls |-> <<>>, sheet |-> sheet,
              msg |-> Msg("Google Sheets connection not configured in secrets.toml", <<>>)]
    ELSE IF MissingFields(env.cfg) # <<>>
        THEN [ok |-> FALSE, calls |-> <<>>, sheet |-> sheet,
              msg |-> Msg("Missing service account credentials", MissingFields(env.cfg))]
    ELSE IF env.cfg["type"] # "service_account"
        THEN [ok |-> FALSE, calls |-> <<>>, sheet |-> sheet,
              msg |-> Msg("Google Sheets connection must use 'service_account' type for write operations", <<>>)]
    ELSE IF LookupRaises(cat, picks)
        THEN [ok |-> FALSE, calls |-> <<"read">>, sheet |-> sheet,
              msg |-> ErrorMessage(IndexError)]
    ELSE IF env.update.raises
        THEN [ok |-> FALSE, calls |-> <<"read", "update">>, sheet |-> sheet,
              msg |-> ErrorMessage(env.update.error)]
    ELSE [ok |-> TRUE, calls |-> <<"read", "update">>,
          sheet |-> WithoutUser(ExistingData(sheet, env), name)
                        \o NewRows(cat, name, picks, now),
          msg |-> Msg("Successfully saved to Google Sheets!", <<>>)]

\* secrets and a worksheet service with which the remote save succeeds
GoodCfg ==
    [type |-> "service_account", project_id |-> "p", private_key |-> "k", client_email |-> "e"]

NoRaise == [raises |-> FALSE, error |-> {}]
Raise(e) == [raises |-> TRUE, error |-> e]

GoodEnv == [configured |-> TRUE, cfg |-> GoodCfg, read |-> "ok", update |-> NoRaise]

--------------------------------------------------------------------------
(* The "Save Predictions" button *)

NoMsg == Msg("", <<>>)

\* a handler that goes on to the remote save after the local save raised
SavePredictionsNoStop(cat, sheet, name, picks, now, env) ==
    LET local == SaveSelection(cat, name, picks, now)
        remote == SaveSelectionToGsheets(cat, sheet, name, picks, now, env)
    IN  [op |-> "handler", name |-> name, picks |-> picks, env |-> env,
         steps |-> <<"save_selection", "save_selection_to_gsheets">>,
         local |-> IF local.raised THEN "raised" ELSE "ok",
         df |-> local.df, calls |-> remote.calls, sheet |-> remote.sheet,
         remote |-> IF remote.ok THEN "ok" ELSE "failed", msg |-> remote.msg,
         shown |-> <<[kind |-> "error", msg |-> Msg("Error saving predictions", <<>>)]>>,
         rerun |-> local.raised]

\* the body of the handler: the local save, then the remote save, then the messages
SavePredictions(cat, sheet, name, picks, now, env) ==
    LET local == SaveSelection(cat, name, picks, now)
        remote == SaveSelectionToGsheets(cat, sheet, name, picks, now, env)
    IN  IF local.raised
        THEN [op |-> "handler", name |-> name, picks |-> picks, env |-> GoodEnv,
              steps |-> <<"save_selection">>, local |-> "raised",
              df |-> <<>>, calls |-> <<>>, sheet |-> sheet,
              remote |-> "none", msg |-> NoMsg,
              shown |-> <<[kind |-> "error", msg |-> Msg("Error saving predictions", <<>>)]>>,
              rerun |-> TRUE]
        ELSE [op |-> "handler", name |-> name, picks |-> picks, env |-> env,
              steps |-> <<"save_selection", "save_selection_to_gsheets">>, local |-> "ok",
              df |-> local.df, calls |-> remote.calls, sheet |-> remote.sheet,
              remote |-> IF remote.ok THEN "ok" ELSE "failed", msg |-> remote.msg,
              shown |->
                IF remote.ok
                THEN <<[kind |-> "success", msg |-> Msg("Predictions saved for", <<>>)],
                       [kind |-> "success", msg |-> remote.msg]>>
                ELSE <<[kind |-> "success", msg |-> Msg("Predictions saved locally for", <<>>)],
                       [kind |-> "warning", msg |-> remote.msg]>>,
              rerun |-> FALSE]

--------------------------------------------------------------------------
(* The selections the form hands to the handler *)

\* f"**{selected}** (AFC) - *{points_display} points*"; conf is "AFC)" or "NFC)"
SbOptionText(label, conf, points) ==
    Bold \o label \o Bold \o SepParen \o conf \o SepDash \o Star \o Digits(points) \o PointsSuffix

\* selected_sb_raw.split(" (")[0].replace("**", "")
SelectedSb(raw) == Remove(SplitHead(raw, SepParen), Bold)

\* the selections of a form in which option choice.idx[t] is ticked in the tab of
\* table t, and the AFC or the NFC champion in the Super Bowl tab
FormPicks(cat, choice) ==
    LET sel(t) == SelectedLabel(BuildOptions(cat[t])[1 + choice.idx[t]])
        sb_options ==
            <<Placeholder,
              SbOptionText(sel("afc"), <<65, 70, 67, 41>>, PointsWhere(cat["afc"], sel("afc"))[1]),
              SbOptionText(sel("nfc"), <<78, 70, 67, 41>>, PointsWhere(cat["nfc"], sel("nfc"))[1])>>
    IN  [p \in {Params[i] : i \in 1..9} |->
            IF p = "sb"
            THEN SelectedSb(sb_options[IF choice.sb = "AFC" THEN 2 ELSE 3])
            ELSE sel(p)]

\* the same selections with parameter b replaced by label (b = "none": unchanged)
Override(picks, b, label) == [p \in DOMAIN picks |-> IF p = b THEN label ELSE picks[p]]

--------------------------------------------------------------------------
(* Inputs *)

MaxClock == 1
MaxRows == 3

AL == <<97, 108>>
BO == <<98, 111>>
Names == {AL, BO}

Choices ==
    << [idx |-> [t \in Tables |-> 1], sb |-> "AFC"],
       [idx |-> [t \in Tables |-> IF t \in {"nfc", "mvp", "oroy", "worst_record"} THEN 1 ELSE 2],
        sb |-> "NFC"] >>

ParamSet == {Params[i] : i \in 1..9}

\* for each catalog, the selections of the forms ...
FormInputs == [v \in 1..Len(CatalogFiles) |->
                {FormPicks(CatalogFiles[v], Choices[k]) : k \in 1..Len(Choices)}]

\* ... and the first of them with one selection replaced by a label no catalog holds
BadInputs == [v \in 1..Len(CatalogFiles) |->
                {Override(FormPicks(CatalogFiles[v], Choices[1]), p, Unknown) : p \in ParamSet}]

Version(cat) == CHOOSE v \in 1..Len(CatalogFiles) : CatalogFiles[v] = cat

\* the secrets and the worksheet service as a save can find them
Envs ==
    { GoodEnv,
      [GoodEnv EXCEPT !.read = "raise"],
      [GoodEnv EXCEPT !.update = Raise({"Forbidden"})],
      [GoodEnv EXCEPT !.configured = FALSE] }

--------------------------------------------------------------------------
(* The state machine *)

NoRun ==
    [op |-> "none", name |-> <<>>, picks |-> [p \in ParamSet |-> <<>>],
     env |-> GoodEnv, steps |-> <<>>, local |-> "none", df |-> <<>>, calls |-> <<>>,
     sheet |-> <<>>, remote |-> "none", msg |-> NoMsg, shown |-> <<>>, rerun |-> FALSE]

Init ==
    /\ catalog = CatalogFiles[1]
    /\ worksheet = <<>>
    /\ updated_df = <<>>
    /\ clock = 0
    /\ saved = [local |-> {}, remote |-> {}]
    /\ run = NoRun
    /\ table = <<>>
    /\ options = <<>>
    /\ NotLoading
    /\ NotScoring
    /\ NotFetching

\* the effect of an operation whose outcome is r on the state
Apply(r) ==
    /\ run' = [r EXCEPT !.df = <<>>, !.sheet = <<>>]
    /\ updated_df' = r.df
    /\ worksheet' = r.sheet
    /\ saved' = [local |-> IF r.local = "ok" THEN saved.local \cup {r.name} ELSE saved.local,
                 remote |-> IF r.remote = "ok" THEN saved.remote \cup {r.name} ELSE saved.remote]
    /\ UNCHANGED <<catalog, clock, table, options, loading, scoring, fetching>>

\* a click on "Save Predictions"; the button is shown only when the name and
\* every selection are non-empty. inputs: pairs <<selections, environment>>
ClickSaveWith(names, inputs) ==
    \E name \in names, in \in inputs :
        /\ name # <<>>
        /\ \A p \in DOMAIN in[1] : in[1][p] # <<>>
        /\ Apply(SavePredictions(catalog, worksheet, name, in[1], clock, in[2]))

\* save_selection_to_gsheets called on its own
CallGsheetsWith(names, inputs) ==
    \E name \in names, in \in inputs :
        LET r == SaveSelectionToGsheets(catalog, worksheet, name, in[1], clock, in[2])
        IN  Apply([NoRun EXCEPT
                    !.op = "gsheets", !.name = name, !.picks = in[1], !.env = in[2],
                    !.steps = <<"save_selection_to_gsheets">>,
                    !.calls = r.calls, !.sheet = r.sheet, !.msg = r.msg,
                    !.remote = IF r.ok THEN "ok" ELSE "failed"])

ClickSave ==
    ClickSaveWith(Names, (FormInputs[Version(catalog)] \cup BadInputs[Version(catalog)]) \X Envs)

\* the cached catalogs are dropped and load_data reads files with other points
Reload ==
    \E v \in 1..(Len(CatalogFiles) - 1) :
        /\ catalog = CatalogFiles[v]
        /\ catalog' = CatalogFiles[v + 1]
        /\ run' = [NoRun EXCEPT !.op = "reload"]
        /\ updated_df' = <<>>
        /\ UNCHANGED <<worksheet, clock, saved, table, options, loading, scoring, fetching>>

\* a second passes
Tick ==
    /\ clock < MaxClock
    /\ clock' = clock + 1
    /\ UNCHANGED <<catalog, worksheet, updated_df, saved, run, table, options, loading, scoring, fetching>>

Next == ClickSave \/ Reload \/ Tick

Spec == Init /\ [][Next]_vars

--------------------------------------------------------------------------
(* The remote save under every configuration of the secrets *)

AllCfgs ==
    [type : {Absent, "", "service_account", "public"}, project_id : {Absent, "", "p"},
     private_key : {Absent, "", "k"}, client_email : {Absent, "", "e"}]

\* what str(e) of an exception of conn.update can contain
ErrorTexts ==
    { {}, {"Public Spreadsheet cannot be written to"}, {"Forbidden"}, {"not found"},
      {"Forbidden", "not found"}, {"Public Spreadsheet cannot be written to", "Forbidden"} }

EnvsRemote ==
    {[GoodEnv EXCEPT !.cfg = c] : c \in AllCfgs}
    \cup {[GoodEnv EXCEPT !.configured = FALSE]}
    \cup {[GoodEnv EXCEPT !.read = r, !.update = u] :
            r \in {"ok", "raise"}, u \in {NoRaise} \cup {Raise(e) : e \in ErrorTexts}}

InputsRemote ==
    ({FormPicks(CatalogFiles[1], Choices[1])} \X EnvsRemote)
    \cup (BadInputs[1] \X {GoodEnv, [GoodEnv EXCEPT !.configured = FALSE]})

ClickSaveRemote ==
    ClickSaveWith(Names, ({FormPicks(CatalogFiles[1], Choices[1])} \X Envs)
                            \cup (BadInputs[1] \X {GoodEnv}))

CallGsheets == CallGsheetsWith(Names, InputsRemote)

NextRemote == ClickSaveRemote \/ CallGsheets

SpecRemote == Init /\ [][NextRemote]_vars

--------------------------------------------------------------------------
(* The option list of any category table *)

\* labels B, C, CJ, Ca
SortLabels == {<<66>>, <<67>>, <<67, 74>>, <<67, 97>>}
SortPoints == {1, 2, 10}

RECURSIVE TablesUpTo(_)
\* the tables of at most n rows
TablesUpTo(n) ==
    IF n = 0 THEN {<<>>}
    ELSE LET shorter == TablesUpTo(n - 1) IN
         shorter \cup {Append(t, <<l, p>>) : t \in {u \in shorter : Len(u) = n - 1},
                                             l \in SortLabels, p \in SortPoints}

InitCatalog ==
    /\ catalog = CatalogFiles[1]
    /\ worksheet = <<>>
    /\ updated_df = <<>>
    /\ clock = 0
    /\ saved = [local |-> {}, remote |-> {}]
    /\ run = NoRun
    /\ table \in TablesUpTo(MaxRows)
    /\ options = <<>>
    /\ NotLoading
    /\ NotScoring
    /\ NotFetching

\* a category tab builds its option list
ShowTab ==
    /\ options = <<>>
    /\ options' = BuildOptions(table)
    /\ UNCHANGED <<catalog, worksheet, updated_df, clock, saved, run, table, loading, scoring, fetching>>

NextCatalog == ShowTab

SpecCatalog == InitCatalog /\ [][NextCatalog]_vars

--------------------------------------------------------------------------
(* The ledger *)

RowsOf(rows, name) == SelectSeq(rows, LAMBDA r : r.name = name)

\* the nine records of name in rows: exactly one per category
HasRecordSet(rows, name) ==
    /\ Len(RowsOf(rows, name)) = 9
    /\ \A i \in 1..9 : \E k \in DOMAIN rows :
            rows[k].name = name /\ rows[k].category = CategoryNames[i]

\* a table with its timestamps ignored
Untimed(rows) == {<<rows[k].name, rows[k].category, rows[k].points>> : k \in DOMAIN rows}

\* C1: after any sequence of saves the worksheet holds at most one record per
\* (name, category), and every user whose save succeeded has exactly nine records,
\* one per category.
C1_OneRecordSetPerSaver ==
    /\ \A j, k \in DOMAIN worksheet :
            (worksheet[j].name = worksheet[k].name
                /\ worksheet[j].category = worksheet[k].category) => j = k
    /\ \A u \in saved.remote : HasRecordSet(worksheet, u)

\* C2: a successful save that repeats the previous successful save (same name,
\* same selections, same catalogs) leaves the ledger as it was, timestamps ignored,
\* for that user and for every other user.
C2_ResaveIdempotent ==
    [][ ( /\ run.op = "handler" /\ run.remote = "ok"
          /\ run'.op = "handler" /\ run'.remote = "ok"
          /\ run' # run \/ worksheet' # worksheet
          /\ run'.name = run.name /\ run'.picks = run.picks
          /\ catalog' = catalog )
        => Untimed(worksheet') = Untimed(worksheet) ]_vars

\* C3: on every save each store receives the entire ledger: the table save_selection
\* returns and the worksheet written hold the records of every user who has saved.
C3_StoresReceiveEntireLedger ==
    /\ (run.op = "handler" /\ run.local = "ok")
            => \A u \in saved.local : HasRecordSet(updated_df, u)
    /\ (run.op = "handler" /\ run.remote = "ok")
            => \A u \in saved.remote : HasRecordSet(worksheet, u)

C1_Witness ==
    /\ run.op = "handler" /\ run.remote = "ok" /\ run.env.read = "raise"
    /\ Cardinality(saved.remote) = 2

--------------------------------------------------------------------------
(* Points *)

HasEntry(df, label) == \E k \in DOMAIN df : Selection(df[k]) = label

\* the points of the catalog entry with this label
EntryPoints(df, label) == Points(df[CHOOSE k \in DOMAIN df : Selection(df[k]) = label])

\* the points of the entry picked for the i-th category; the Super Bowl winner is
\* picked from the conference catalog that holds it
PickedPoints(cat, picks, i) ==
    IF Params[i] = "sb"
    THEN IF HasEntry(cat["afc"], picks["sb"])
            THEN EntryPoints(cat["afc"], picks["sb"])
            ELSE EntryPoints(cat["nfc"], picks["sb"])
    ELSE EntryPoints(cat[Params[i]], picks[Params[i]])

\* the last nine rows of a table are the records of the save described by run
WrittenFromCatalog(rows) ==
    /\ Len(rows) >= 9
    /\ \A i \in 1..9 :
        LET r == rows[Len(rows) - 9 + i] IN
        /\ r.name = run.name
        /\ r.category = CategoryNames[i]
        /\ r.points = PickedPoints(catalog, run.picks, i)

\* C4: every record a save writes, in the local table and in the worksheet, carries
\* the points of the catalog entry picked for its category at the time of the save;
\* the Super Bowl record those of the picked team in its conference catalog.
C4_PointsFromCatalog ==
    /\ run.local = "ok" => WrittenFromCatalog(updated_df)
    /\ run.remote = "ok" => WrittenFromCatalog(worksheet)

C4_Witness ==
    /\ run.op = "handler" /\ run.remote = "ok"
    /\ run.picks["sb"] = run.picks["nfc"]
    /\ catalog = CatalogFiles[2]
    /\ \E k \in DOMAIN worksheet : worksheet[k].name # run.name

\* C5: a change of the catalog alone changes no record of the ledger, and a save
\* leaves the records of the other users as they were, points included.
C5_SnapshotKept ==
    [][ /\ catalog' # catalog => worksheet' = worksheet
        /\ worksheet' # worksheet => run'.remote = "ok"
        /\ \A k \in DOMAIN worksheet' :
              worksheet'[k].name # run'.name
                  => \E j \in DOMAIN worksheet : worksheet[j] = worksheet'[k] ]_vars

C5_Witness ==
    /\ catalog = CatalogFiles[2]
    /\ run.op = "handler" /\ run.remote = "ok" /\ run.name = BO
    /\ \E k \in DOMAIN worksheet :
          /\ worksheet[k].name = AL
          /\ worksheet[k].category = "AFC Winner"
          /\ ~\E j \in DOMAIN catalog["afc"] : Points(catalog["afc"][j]) = worksheet[k].points

--------------------------------------------------------------------------
(* The handler *)

\* the records are in the local store: load_selections gives them back
PersistedLocally(rows) ==
    \A k \in DOMAIN rows : \E j \in DOMAIN LoadSelections : LoadSelections[j] = rows[k]

Kinds(shown) == [k \in DOMAIN shown |-> shown[k].kind]

\* C7: when the remote save fails it returns (False, message) without raising, the
\* local write of the submission has succeeded and persisted its records, and a
\* local success with a warning is shown.
C7_RemoteFailureKeepsLocal ==
    (run.op = "handler" /\ run.remote = "failed")
        => /\ run.msg.text # ""
           /\ run.local = "ok" /\ ~run.rerun
           /\ Kinds(run.shown) = <<"success", "warning">>
           /\ HasRecordSet(updated_df, run.name)
           /\ PersistedLocally(updated_df)

--------------------------------------------------------------------------
(* Unknown selections and credentials *)

\* some selection names a label its catalog does not hold; the Super Bowl winner
\* is looked for in both conference catalogs
UnknownPick(cat, picks) ==
    \E i \in 1..9 :
        IF Params[i] = "sb"
        THEN ~HasEntry(cat["afc"], picks["sb"]) /\ ~HasEntry(cat["nfc"], picks["sb"])
        ELSE ~HasEntry(cat[Params[i]], picks[Params[i]])

\* C6: a save given a selection that its catalog does not hold fails with an error:
\* the handler's local save raises and the remote save returns (False, message);
\* no record is stored, and neither the local table nor the worksheet changes.
C6_UnknownSelectionFails ==
    [][ (run'.op \in {"handler", "gsheets"} /\ UnknownPick(catalog, run'.picks))
        => /\ worksheet' = worksheet
           /\ updated_df' = <<>>
           /\ saved' = saved
           /\ run'.op = "handler" => run'.local = "raised" /\ Kinds(run'.shown) = <<"error">>
           /\ run'.op = "gsheets" => run'.remote = "failed" /\ run'.msg.text # "" ]_vars

C6_Witness ==
    /\ run.op = "gsheets" /\ run.remote = "failed"
    /\ run.picks["sb"] = Unknown
    /\ run.env = GoodEnv
    /\ run.msg.text = "Error saving to Google Sheets"
    /\ worksheet # <<>>

\* the connection is not configured, a required field is missing or empty, or the
\* type is not 'service_account'
BadCredentials(env) ==
    \/ ~env.configured
    \/ \E f \in {"type", "project_id", "private_key", "client_email"} : env.cfg[f] \in {Absent, ""}
    \/ env.cfg["type"] # "service_account"

\* the message says what is wrong with the credentials
Descriptive(msg, env) ==
    IF ~env.configured
        THEN msg.text = "Google Sheets connection not configured in secrets.toml"
    ELSE IF \E f \in DOMAIN env.cfg : env.cfg[f] \in {Absent, ""}
        THEN /\ msg.text = "Missing service account credentials"
             /\ {msg.detail[k] : k \in DOMAIN msg.detail}
                    = {f \in DOMAIN env.cfg : env.cfg[f] \in {Absent, ""}}
    ELSE msg.text = "Google Sheets connection must use 'service_account' type for write operations"

\* C9: with the connection not configured, a required field missing or empty, or a
\* type other than 'service_account', save_selection_to_gsheets issues no worksheet
\* request, returns (False, a message naming the fault) and leaves the worksheet as
\* it was.
C9_FailsClosed ==
    [][ (run'.remote # "none" /\ BadCredentials(run'.env))
        => /\ run'.remote = "failed"
           /\ run'.calls = <<>>
           /\ Descriptive(run'.msg, run'.env)
           /\ worksheet' = worksheet ]_vars

C9_Witness ==
    /\ run.remote = "failed"
    /\ run.env.configured
    /\ run.env.cfg["type"] = "service_account"
    /\ run.env.cfg["project_id"] = ""
    /\ run.env.cfg["private_key"] = Absent
    /\ run.msg.detail = <<"project_id", "private_key">>
    /\ worksheet # <<>>

--------------------------------------------------------------------------
(* Catalog ordering *)

Count(seq, x) == Cardinality({k \in DOMAIN seq : seq[k] = x})

\* the catalog row an option stands for, read back as the tab reads a selection
RowOfOption(raw) == <<SelectedLabel(raw), SelectedPoints(raw)>>

--------------------------------------------------------------------------
(* Loading the category files *)

\* the order in which load_data reads the files, which is the order of the tabs
ReadOrder ==
    <<"afc", "nfc", "mvp", "dpoy", "oroy", "dark_horse", "playoff_miss", "worst_record">>

\* a file is there with its columns, is not there, or lacks the column 'points'
FileStates == {"ok", "absent", "malformed"}

\* pd.read_csv of a file without the column 'points': rows of a label only
ReadMalformed(rows) == [i \in 1..Len(rows) |-> <<Selection(rows[i])>>]

\* load_data(): eight pd.read_csv in a row; the first file that is not there raises
\* FileNotFoundError and nothing is returned
LoadData(f) ==
    IF \E i \in 1..Len(ReadOrder) : f[ReadOrder[i]] = "absent"
    THEN [raised |-> "FileNotFoundError", data |-> <<>>]
    ELSE [raised |-> "none",
          data |-> [t \in Tables |->
                      IF f[t] = "ok" THEN CatalogFiles[1][t]
                      ELSE ReadMalformed(CatalogFiles[1][t])]]

\* sort_values(['points', 'selection']) raises KeyError on a table without 'points'
SortRaises(df) == \E i \in DOMAIN df : Len(df[i]) < 2

\* the tabs of the eight tables, in order: each builds its option list, and the
\* first KeyError ends the run of the script (no tab has a try block)
RenderTabs(data) ==
    LET bad == {i \in 1..Len(ReadOrder) : SortRaises(data[ReadOrder[i]])}
        stop == IF bad = {} THEN Len(ReadOrder) + 1
                ELSE CHOOSE i \in bad : \A j \in bad : i <= j
    IN  [raised |-> IF bad = {} THEN "none" ELSE "KeyError",
         tabs |-> [i \in 1..(stop - 1) |-> BuildOptions(data[ReadOrder[i]])]]

\* one run of the script: the catalogs are loaded, then the tabs are drawn
RunScript(f) ==
    LET load == LoadData(f) IN
    IF load.raised # "none"
    THEN [ran |-> TRUE, raised |-> load.raised, data |-> <<>>, tabs |-> <<>>]
    ELSE LET drawn == RenderTabs(load.data) IN
         [ran |-> TRUE, raised |-> drawn.raised, data |-> load.data, tabs |-> drawn.tabs]

InitLoad ==
    /\ catalog = <<>>
    /\ worksheet = <<>>
    /\ updated_df = <<>>
    /\ clock = 0
    /\ saved = [local |-> {}, remote |-> {}]
    /\ run = NoRun
    /\ table = <<>>
    /\ options = <<>>
    /\ files \in [Tables -> FileStates]
    /\ page = <<>>
    /\ NotScoring
    /\ NotFetching

\* the page is opened
OpenPage ==
    /\ page = <<>>
    /\ page' = [RunScript(files) EXCEPT !.data = <<>>]
    /\ catalog' = RunScript(files).data
    /\ UNCHANGED <<worksheet, updated_df, clock, saved, run, table, options, files, scoring, fetching>>

NextLoad == OpenPage

SpecLoad == InitLoad /\ [][NextLoad]_vars

\* the tables whose catalog the script holds after load_data
Loaded == DOMAIN catalog

\* C11: when the file of one category is absent or malformed and the other seven
\* are in order, the catalogs of those seven are loaded after the page has run.
C11_FailureConfined ==
    (page # <<>> /\ Cardinality({t \in Tables : files[t] # "ok"}) = 1)
        => \A u \in Tables : files[u] = "ok" => u \in Loaded /\ catalog[u] = CatalogFiles[1][u]

--------------------------------------------------------------------------
(* Names as they are typed *)

\* the characters str.strip() removes (those below U+0100)
Whitespace == {9, 10, 11, 12, 13, 28, 29, 30, 31, 32, 133, 160}

RECURSIVE LStrip(_)
LStrip(s) == IF s # <<>> /\ Head(s) \in Whitespace THEN LStrip(Tail(s)) ELSE s

RECURSIVE RStrip(_)
RStrip(s) ==
    IF s # <<>> /\ s[Len(s)] \in Whitespace THEN RStrip(SubSeq(s, 1, Len(s) - 1)) ELSE s

\* s.strip()
Strip(s) == RStrip(LStrip(s))

\* s.lower(), for the letters A-Z
Lower(s) == [i \in 1..Len(s) |-> IF s[i] \in 65..90 THEN s[i] + 32 ELSE s[i]]

\* "al", " al", "al ", "Al": st.text_input returns the text as typed
TypedNames == {AL, <<32>> \o AL, AL \o <<32>>, <<65, 108>>}

ClickSaveTyped == ClickSaveWith(TypedNames, FormInputs[1] \X {GoodEnv})

NextNames == ClickSaveTyped

SpecNames == Init /\ [][NextNames]_vars

\* the names that have records in the worksheet
NamesIn(rows) == {rows[k].name : k \in DOMAIN rows}

\* C12: the worksheet never holds records under two names that differ only by
\* leading or trailing whitespace (such a save replaces the records), and names that
\* differ in letter case each keep their own nine records.
C12_TrimmedNameIsKey ==
    /\ \A n, m \in NamesIn(worksheet) : Strip(n) = Strip(m) => n = m
    /\ \A n, m \in saved.remote :
            (n # m /\ Lower(n) = Lower(m))
                => HasRecordSet(worksheet, n) /\ HasRecordSet(worksheet, m)

--------------------------------------------------------------------------
(* The 2024 results: scoring the historical predictions *)

\* " | ", the marks of a correct and of a wrong prediction, ": ", " pts"
SepBar == <<32, 124, 32>>
MarkCorrect == <<9989>>
MarkWrong == <<10060>>
SepColon == <<58, 32>>
PtsSuffix == <<32, 112, 116, 115>>

\* actual_2024_winners, in the order of the dict; the column of predictions_2024.csv
\* that column_mapping gives for a category has the category's own name
actual_2024_winners ==
    <<
      \* AFC Winner: Chiefs
      [category |-> <<65, 70, 67, 32, 87, 105, 110, 110, 101, 114>>,
       list |-> FALSE,
       winner |-> <<67, 104, 105, 101, 102, 115>>],
      \* NFC Winner: Eagles
      [category |-> <<78, 70, 67, 32, 87, 105, 110, 110, 101, 114>>,
       list |-> FALSE,
       winner |-> <<69, 97, 103, 108, 101, 115>>],
      \* Superbowl Winner: Eagles
      [category |-> <<83, 117, 112, 101, 114, 98, 111, 119, 108, 32, 87, 105, 110, 110, 101, 114>>,
       list |-> FALSE,
       winner |-> <<69, 97, 103, 108, 101, 115>>],
      \* MVP: Josh Allen
      [category |-> <<77, 86, 80>>,
       list |-> FALSE,
       winner |-> <<74, 111, 115, 104, 32, 65, 108, 108, 101, 110>>],
      \* Offensive Rookie of the Year: Jayden Daniels
      [category |-> <<79, 102, 102, 101, 110, 115, 105, 118, 101, 32, 82, 111, 111, 107, 105, 101, 32, 111, 102, 32, 116, 104, 101, 32, 89, 101, 97, 114>>,
       list |-> FALSE,
       winner |-> <<74, 97, 121, 100, 101, 110, 32, 68, 97, 110, 105, 101, 108, 115>>],
      \* Defensive Player of the Year: Patrick Surtain II
      [category |-> <<68, 101, 102, 101, 110, 115, 105, 118, 101, 32, 80, 108, 97, 121, 101, 114, 32, 111, 102, 32, 116, 104, 101, 32, 89, 101, 97, 114>>,
       list |-> FALSE,
       winner |-> <<80, 97, 116, 114, 105, 99, 107, 32, 83, 117, 114, 116, 97, 105, 110, 32, 73, 73>>],
      \* Dark Horse to Make Playoffs: Steelers, Broncos, Chargers, Commanders, Buccaneers, Vikings, Packers
      [category |-> <<68, 97, 114, 107, 32, 72, 111, 114, 115, 101, 32, 116, 111, 32, 77, 97, 107, 101, 32, 80, 108, 97, 121, 111, 102, 102, 115>>,
       list |-> TRUE,
       winner |-> <<<<83, 116, 101, 101, 108, 101, 114, 115>>,
                    <<66, 114, 111, 110, 99, 111, 115>>,
                    <<67, 104, 97, 114, 103, 101, 114, 115>>,
                    <<67, 111, 109, 109, 97, 110, 100, 101, 114, 115>>,
                    <<66, 117, 99, 99, 97, 110, 101, 101, 114, 115>>,
                    <<86, 105, 107, 105, 110, 103, 115>>,
                    <<80, 97, 99, 107, 101, 114, 115>>>>],
      \* Underperformer to Miss Playoffs: Bears, Dolphins, Jets, Falcons, Cowboys, Bengals, 49ers
      [category |-> <<85, 110, 100, 101, 114, 112, 101, 114, 102, 111, 114, 109, 101, 114, 32, 116, 111, 32, 77, 105, 115, 115, 32, 80, 108, 97, 121, 111, 102, 102, 115>>,
       list |-> TRUE,
       winner |-> <<<<66, 101, 97, 114, 115>>,
                    <<68, 111, 108, 112, 104, 105, 110, 115>>,
                    <<74, 101, 116, 115>>,
                    <<70, 97, 108, 99, 111, 110, 115>>,
                    <<67, 111, 119, 98, 111, 121, 115>>,
                    <<66, 101, 110, 103, 97, 108, 115>>,
                    <<52, 57, 101, 114, 115>>>>],
      \* Worst Regular Season Record: Browns, Giants, Titans
      [category |-> <<87, 111, 114, 115, 116, 32, 82, 101, 103, 117, 108, 97, 114, 32, 83, 101, 97, 115, 111, 110, 32, 82, 101, 99, 111, 114, 100>>,
       list |-> TRUE,
       winner |-> <<<<66, 114, 111, 119, 110, 115>>,
                    <<71, 105, 97, 110, 116, 115>>,
                    <<84, 105, 116, 97, 110, 115>>>>]
    >>

RECURSIVE SplitAll(_, _)
\* s.split(sep), every part
SplitAll(s, sep) ==
    LET i == FirstIndex(s, sep) IN
    IF i = 0 THEN <<s>>
    ELSE <<SubSeq(s, 1, i - 1)>> \o SplitAll(SubSeq(s, i + Len(sep), Len(s)), sep)

RECURSIVE Join(_, _)
\* sep.join(parts)
Join(parts, sep) ==
    IF parts = <<>> THEN <<>>
    ELSE IF Len(parts) = 1 THEN parts[1]
    ELSE parts[1] \o sep \o Join(Tail(parts), sep)

\* a float(points_str) without the try block: the ValueError (-1) gets through
PointsOfNoExcept(points_str) == ToNumber(points_str)

\* float(points_str) under try / except: 0 when it raises ValueError
PointsOf(points_str) ==
    IF ToNumber(points_str) = -1 THEN 0 ELSE ToNumber(points_str)

\* the label and the points of one cell of the file
ParseCell(prediction_raw) ==
    IF FirstIndex(prediction_raw, SepDash) # 0
    THEN [predicted_winner |-> Strip(SplitHead(prediction_raw, SepDash)),
          points |-> PointsOf(Strip(SplitSecond(prediction_raw, SepDash)))]
    ELSE [predicted_winner |-> Strip(prediction_raw), points |-> 0]

\* a comparison without lower()
IsCorrectExact(predicted_winner, w) ==
    IF w.list
    THEN \E k \in DOMAIN w.winner : predicted_winner = w.winner[k]
    ELSE predicted_winner = w.winner

\* a comparison with the first member of a list only
IsCorrectFirstOnly(predicted_winner, w) ==
    IF w.list
    THEN Lower(predicted_winner) = Lower(w.winner[1])
    ELSE Lower(predicted_winner) = Lower(w.winner)

\* is_correct, for an entry w of actual_2024_winners
IsCorrect(predicted_winner, w) ==
    IF w.list
    THEN \E k \in DOMAIN w.winner : Lower(predicted_winner) = Lower(w.winner[k])
    ELSE Lower(predicted_winner) = Lower(w.winner)

\* points added whether or not the prediction is correct
ContributionAlways(is_correct, points) == points

\* what one category adds to total_points
Contribution(is_correct, points) == IF is_correct THEN points ELSE 0

RECURSIVE SumSeq(_)
SumSeq(q) == IF q = <<>> THEN 0 ELSE Head(q) + SumSeq(Tail(q))

\* a count of every category scored
CountAll(flags) == Len(flags)

\* correct_predictions: the number of categories found correct
CountCorrect(flags) == Cardinality({i \in DOMAIN flags : flags[i]})

\* f"{mark} {category}: {predicted_winner} - {points:g} pts"
ScoreText(is_correct, category, cell) ==
    (IF is_correct THEN MarkCorrect ELSE MarkWrong) \o <<32>> \o category \o SepColon
        \o cell.predicted_winner \o SepDash \o Digits(cell.points) \o PtsSuffix

\* the entry of scoring_results for one row of the file; a category whose column the
\* row does not have is passed over
ScoreRow(row) ==
    LET scored == SelectSeq([i \in 1..Len(actual_2024_winners) |-> i],
                            LAMBDA i : actual_2024_winners[i].category \in DOMAIN row.cells)
        cell == [k \in 1..Len(scored) |->
                    ParseCell(row.cells[actual_2024_winners[scored[k]].category])]
        flag == [k \in 1..Len(scored) |->
                    IsCorrect(cell[k].predicted_winner, actual_2024_winners[scored[k]])]
        total_points == SumSeq([k \in 1..Len(scored) |-> Contribution(flag[k], cell[k].points)])
        category_scores ==
            [k \in 1..Len(scored) |->
                ScoreText(flag[k], actual_2024_winners[scored[k]].category, cell[k])]
    IN  [Name |-> row.name,
         Correct |-> Digits(CountCorrect(flag)) \o <<47, 57>>,
         Total |-> Digits(total_points),
         Details |-> Join(category_scores, SepBar)]

\* the sort key float(x['Total Points'])
TotalOf(entry) == ToNumber(entry.Total)

RECURSIVE InsertEntry(_, _)
InsertEntry(sorted, e) ==
    IF sorted = <<>> THEN <<e>>
    ELSE IF TotalOf(e) > TotalOf(Head(sorted)) THEN <<e>> \o sorted
    ELSE <<Head(sorted)>> \o InsertEntry(Tail(sorted), e)

\* no sort: the entries in file order
KeepFileOrder(results) == results

RECURSIVE SortByTotal(_)
\* scoring_results.sort(key=..., reverse=True): descending, equal totals in file order
SortByTotal(results) ==
    IF results = <<>> THEN <<>>
    ELSE InsertEntry(SortByTotal(SubSeq(results, 1, Len(results) - 1)), results[Len(results)])

\* next((result for result in scoring_results if result['Name'] == selected_user), None)
FindDetails(results, selected_user) ==
    LET hits == SelectSeq(results, LAMBDA e : e.Name = selected_user)
    IN  IF hits = <<>> THEN <<>> ELSE <<hits[1]>>

\* the lines of the detailed breakdown: the text, and whether it is greyed out
DetailLines(entry) ==
    LET details == SplitAll(entry.Details, SepBar) IN
    [k \in 1..Len(details) |->
        [text |-> details[k], grey |-> IsPrefixAt(details[k], 1, MarkWrong)]]

\* cells of the column 'AFC Winner': 'Chiefs - 5', ' chiefs  - 5', 'Bills - 7', 'Chiefs', 'Chiefs - x'
AfcCells ==
    { <<67, 104, 105, 101, 102, 115, 32, 45, 32, 53>>,
      <<32, 99, 104, 105, 101, 102, 115, 32, 32, 45, 32, 53>>,
      <<66, 105, 108, 108, 115, 32, 45, 32, 55>>,
      <<67, 104, 105, 101, 102, 115>>,
      <<67, 104, 105, 101, 102, 115, 32, 45, 32, 120>> }

\* cells of the column 'Dark Horse to Make Playoffs': 'Broncos - 10', ' steelers  - 2', 'Bears - 4'
DarkHorseCells ==
    { <<66, 114, 111, 110, 99, 111, 115, 32, 45, 32, 49, 48>>,
      <<32, 115, 116, 101, 101, 108, 101, 114, 115, 32, 32, 45, 32, 50>>,
      <<66, 101, 97, 114, 115, 32, 45, 32, 52>> }

\* the other columns, the same in every row: 'Eagles - 3', 'Chiefs - 6', 'nan', 'Jayden Daniels - 2', 'TJ Watt - 9', 'Jets - 1', 'Panthers - 8'
\* ('nan' is str() of an empty cell)
OtherCells ==
    <<<<69, 97, 103, 108, 101, 115, 32, 45, 32, 51>>,
      <<67, 104, 105, 101, 102, 115, 32, 45, 32, 54>>,
      <<110, 97, 110>>,
      <<74, 97, 121, 100, 101, 110, 32, 68, 97, 110, 105, 101, 108, 115, 32, 45, 32, 50>>,
      <<84, 74, 32, 87, 97, 116, 116, 32, 45, 32, 57>>,
      <<>>,
      <<74, 101, 116, 115, 32, 45, 32, 49>>,
      <<80, 97, 110, 116, 104, 101, 114, 115, 32, 45, 32, 56>>>>

MaxUsers == 2

\* the columns of predictions_2024.csv after 'Your Name'
Columns == {actual_2024_winners[i].category : i \in 1..Len(actual_2024_winners)}

\* the cells every row has in the columns other than the first and the seventh
OtherRow ==
    [c \in Columns |->
        LET i == CHOOSE k \in 1..Len(actual_2024_winners) : actual_2024_winners[k].category = c
        IN  IF i = 1 THEN <<>> ELSE OtherCells[i - 1]]

\* a row of predictions_2024.csv: 'Your Name' and the nine prediction columns
RowOf(name, afc, dark_horse) ==
    [name |-> name,
     cells |-> [OtherRow EXCEPT ![actual_2024_winners[1].category] = afc,
                                ![actual_2024_winners[7].category] = dark_horse]]

FileRows == {RowOf(n, a, d) : n \in Names, a \in AfcCells, d \in DarkHorseCells}

\* ScoreRow and DetailLines of every row a file can hold, computed once
ScoreOf == [r \in FileRows |-> ScoreRow(r)]
LinesOf == [e \in {ScoreOf[r] : r \in FileRows} |-> DetailLines(e)]

\* the results tab with option number pick of the select box chosen (the box shows
\* the names of scoring_results and gives back the name, not the position)
ResultsTab(df, pick) ==
    LET results == SortByTotal([i \in 1..Len(df) |-> ScoreOf[df[i]]])
        selected_user == IF results = <<>> THEN <<>> ELSE results[pick].Name
        found == IF selected_user = <<>> THEN <<>> ELSE FindDetails(results, selected_user)
    IN  [results |-> results,
         details |-> [pick |-> IF results = <<>> THEN 0 ELSE pick,
                      selected_user |-> selected_user,
                      entry |-> found,
                      lines |-> IF found = <<>> THEN <<>> ELSE LinesOf[found[1]]]]

RECURSIVE FilesUpTo(_)
\* the files of at most n rows
FilesUpTo(n) ==
    IF n = 0 THEN {<<>>}
    ELSE LET shorter == FilesUpTo(n - 1) IN
         shorter \cup {Append(f, r) : f \in {g \in shorter : Len(g) = n - 1}, r \in FileRows}

InitScoring ==
    /\ catalog = CatalogFiles[1]
    /\ worksheet = <<>>
    /\ updated_df = <<>>
    /\ clock = 0
    /\ saved = [local |-> {}, remote |-> {}]
    /\ run = NoRun
    /\ table = <<>>
    /\ options = <<>>
    /\ NotLoading
    /\ predictions_2024_df \in FilesUpTo(MaxUsers)
    /\ scoring_results = <<>>
    /\ user_details = <<>>
    /\ NotFetching

\* the results tab is drawn for the first time: the select box is on its first option
ShowResults ==
    /\ user_details = <<>>
    /\ LET tab == ResultsTab(predictions_2024_df, 1) IN
          /\ scoring_results' = tab.results
          /\ user_details' = tab.details
    /\ UNCHANGED <<saving, loading, predictions_2024_df, fetching>>

\* another option of the select box is chosen and the script runs again
SelectUser ==
    /\ user_details # <<>>
    /\ \E pick \in 1..Len(scoring_results) :
          /\ pick # user_details.pick
          /\ LET tab == ResultsTab(predictions_2024_df, pick) IN
                /\ scoring_results' = tab.results
                /\ user_details' = tab.details
    /\ UNCHANGED <<saving, loading, predictions_2024_df, fetching>>

NextScoring == ShowResults \/ SelectUser

SpecScoring == InitScoring /\ [][NextScoring]_vars

--------------------------------------------------------------------------
(* The scoring rules as the specification states them *)

\* the results tab has been drawn
Ran == user_details # <<>>

\* the number of scored categories
N == Len(actual_2024_winners)

\* the legacy "label - points" parse fails: no separator, or points that are no number
ParseFails(raw) ==
    \/ FirstIndex(raw, SepDash) = 0
    \/ ToNumber(Strip(SplitSecond(raw, SepDash))) = -1

\* the trimmed label of a cell
LabelOf(raw) == Strip(SplitHead(raw, SepDash))

\* the points of a cell, 0 when the parse fails
CellPoints(raw) == IF ParseFails(raw) THEN 0 ELSE ToNumber(Strip(SplitSecond(raw, SepDash)))

\* the matching rule: trimmed, case-insensitive, any member of a list
Matches(raw, w) ==
    LET outcomes == IF w.list THEN {w.winner[k] : k \in DOMAIN w.winner} ELSE {w.winner}
    IN  Lower(LabelOf(raw)) \in {Lower(o) : o \in outcomes}

CellOf(row, k) == row.cells[actual_2024_winners[k].category]

\* per row of a file: which categories match, which cells fail to parse, the total
MatchOf == [r \in FileRows |-> [k \in 1..N |-> Matches(CellOf(r, k), actual_2024_winners[k])]]
FailOf == [r \in FileRows |-> [k \in 1..N |-> ParseFails(CellOf(r, k))]]
ExpectedTotal ==
    [r \in FileRows |->
        SumSeq([k \in 1..N |-> IF MatchOf[r][k] THEN CellPoints(CellOf(r, k)) ELSE 0])]

\* per leaderboard entry: which lines of the breakdown carry the mark of a correct
\* prediction, and the k and the N of "k/N"
Entries == {ScoreOf[r] : r \in FileRows}
MarksOf ==
    [e \in Entries |->
        LET lines == SplitAll(e.Details, SepBar)
        IN  [k \in 1..Len(lines) |-> IsPrefixAt(lines[k], 1, MarkCorrect)]]
CorrectK == [e \in Entries |-> ToNumber(SplitHead(e.Correct, <<47>>))]
CorrectN == [e \in Entries |-> ToNumber(SplitSecond(e.Correct, <<47>>))]

\* two sequences hold the same elements the same number of times
SameBag(a, b) ==
    /\ Len(a) = Len(b)
    /\ \A x \in {a[i] : i \in DOMAIN a} \cup {b[i] : i \in DOMAIN b} :
            Cardinality({i \in DOMAIN a : a[i] = x}) = Cardinality({i \in DOMAIN b : b[i] = x})

Singles == {k \in 1..N : ~actual_2024_winners[k].list}
Lists == {k \in 1..N : actual_2024_winners[k].list}

\* C13: for every row of the file, total_points is the sum of the parsed points of
\* the categories whose predicted label matches the outcome; the others add 0.
C13_TotalIsSumOfMatched ==
    Ran => SameBag([j \in DOMAIN scoring_results |->
                        <<scoring_results[j].Name, TotalOf(scoring_results[j])>>],
                   [i \in DOMAIN predictions_2024_df |->
                        <<predictions_2024_df[i].name, ExpectedTotal[predictions_2024_df[i]]>>])

\* two rows are scored, with a total of 21 (everything that can match does) and
\* with a total of 6 (the AFC and the dark horse predictions do not match)
C13_Witness ==
    /\ Ran
    /\ \E j \in DOMAIN scoring_results : TotalOf(scoring_results[j]) = 21
    /\ \E j \in DOMAIN scoring_results : TotalOf(scoring_results[j]) = 6

\* C14: in a category with a single outcome a prediction is marked correct exactly
\* when its trimmed label equals the outcome, letter case ignored.
C14_SingleOutcomeMatch ==
    Ran => SameBag([j \in DOMAIN scoring_results |->
                        <<scoring_results[j].Name,
                          [k \in Singles |-> MarksOf[scoring_results[j]][k]]>>],
                   [i \in DOMAIN predictions_2024_df |->
                        <<predictions_2024_df[i].name,
                          [k \in Singles |-> MatchOf[predictions_2024_df[i]][k]]>>])

\* ' chiefs  - 5' (case and whitespace differ) and 'Bills - 7' have been scored
C14_Witness ==
    /\ Ran
    /\ \E i \in DOMAIN predictions_2024_df :
            CellOf(predictions_2024_df[i], 1) = <<32, 99, 104, 105, 101, 102, 115, 32, 32, 45, 32, 53>>
    /\ \E i \in DOMAIN predictions_2024_df :
            CellOf(predictions_2024_df[i], 1) = <<66, 105, 108, 108, 115, 32, 45, 32, 55>>
    /\ \E j \in DOMAIN scoring_results : MarksOf[scoring_results[j]][1]
    /\ \E j \in DOMAIN scoring_results : ~MarksOf[scoring_results[j]][1]

\* C15: in a category whose outcome is a list a prediction is marked correct exactly
\* when its trimmed label equals, letter case ignored, at least one member.
C15_ListOutcomeMatch ==
    Ran => SameBag([j \in DOMAIN scoring_results |->
                        <<scoring_results[j].Name,
                          [k \in Lists |-> MarksOf[scoring_results[j]][k]]>>],
                   [i \in DOMAIN predictions_2024_df |->
                        <<predictions_2024_df[i].name,
                          [k \in Lists |-> MatchOf[predictions_2024_df[i]][k]]>>])

\* 'Broncos - 10' (the second member of the list) and 'Bears - 4' (no member) have
\* been scored
C15_Witness ==
    /\ Ran
    /\ \E i \in DOMAIN predictions_2024_df :
            CellOf(predictions_2024_df[i], 7) = <<66, 114, 111, 110, 99, 111, 115, 32, 45, 32, 49, 48>>
    /\ \E i \in DOMAIN predictions_2024_df :
            CellOf(predictions_2024_df[i], 7) = <<66, 101, 97, 114, 115, 32, 45, 32, 52>>
    /\ \E j \in DOMAIN scoring_results : MarksOf[scoring_results[j]][7]
    /\ \E j \in DOMAIN scoring_results : ~MarksOf[scoring_results[j]][7]

\* C16: a cell that cannot be parsed adds 0 to its row's total and does not stop
\* the pass: every row is listed, with all nine categories in its breakdown and
\* with the total of its cells that do parse.
C16_ParseFailureTolerated ==
    Ran =>
        /\ Len(scoring_results) = Len(predictions_2024_df)
        /\ \A i \in DOMAIN predictions_2024_df :
              LET r == predictions_2024_df[i] IN
              (\E k \in 1..N : FailOf[r][k]) =>
                \E j \in DOMAIN scoring_results :
                    /\ scoring_results[j].Name = r.name
                    /\ Len(MarksOf[scoring_results[j]]) = N
                    /\ TotalOf(scoring_results[j]) =
                          SumSeq([k \in 1..N |->
                                    IF ~FailOf[r][k] /\ MatchOf[r][k]
                                    THEN CellPoints(CellOf(r, k)) ELSE 0])

\* a row with 'Chiefs - x' and a row with 'Chiefs' (no separator) have been scored
C16_Witness ==
    /\ Ran
    /\ Len(scoring_results) = 2
    /\ \E i \in DOMAIN predictions_2024_df :
            CellOf(predictions_2024_df[i], 1) = <<67, 104, 105, 101, 102, 115, 32, 45, 32, 120>>
    /\ \E i \in DOMAIN predictions_2024_df :
            CellOf(predictions_2024_df[i], 1) = <<67, 104, 105, 101, 102, 115>>

\* C17: a cell whose parse fails is in the breakdown, marked incorrect, and is not
\* counted in the correct count, whatever its label.
C17_ParseFailureIsIncorrect ==
    Ran =>
        \A i \in DOMAIN predictions_2024_df :
            LET r == predictions_2024_df[i] IN
            \E j \in DOMAIN scoring_results :
                LET e == scoring_results[j] IN
                /\ e.Name = r.name
                /\ Len(MarksOf[e]) = N
                /\ \A k \in 1..N : FailOf[r][k] => ~MarksOf[e][k]
                /\ CorrectK[e] = Cardinality({k \in 1..N : ~FailOf[r][k] /\ MatchOf[r][k]})

\* C18: in every entry the k of "k/N" is the number of breakdown lines marked
\* correct, which is the number of categories whose prediction matches, 0 <= k <= N,
\* and N is 9, the number of categories of actual_2024_winners.
C18_CorrectCount ==
    Ran =>
        /\ \A j \in DOMAIN scoring_results :
              LET e == scoring_results[j] IN
              /\ CorrectK[e] = Cardinality({k \in DOMAIN MarksOf[e] : MarksOf[e][k]})
              /\ 0 <= CorrectK[e] /\ CorrectK[e] <= CorrectN[e]
              /\ CorrectN[e] = N /\ N = 9
        /\ SameBag([j \in DOMAIN scoring_results |->
                        <<scoring_results[j].Name, CorrectK[scoring_results[j]]>>],
                   [i \in DOMAIN predictions_2024_df |->
                        <<predictions_2024_df[i].name,
                          Cardinality({k \in 1..N : MatchOf[predictions_2024_df[i]][k]})>>])

\* an entry with 5/9 and an entry with 3/9 are listed
C18_Witness ==
    /\ Ran
    /\ \E j \in DOMAIN scoring_results : CorrectK[scoring_results[j]] = 5
    /\ \E j \in DOMAIN scoring_results : CorrectK[scoring_results[j]] = 3

\* C19: of two entries with different totals the one with the higher total comes
\* first in the leaderboard.
C19_DescendingTotals ==
    Ran =>
        \A i, j \in DOMAIN scoring_results :
            (i < j /\ TotalOf(scoring_results[i]) # TotalOf(scoring_results[j]))
                => TotalOf(scoring_results[i]) > TotalOf(scoring_results[j])

\* the file has the row with the lower total first, and both are listed
C19_Witness ==
    /\ Ran
    /\ Len(predictions_2024_df) = 2
    /\ ExpectedTotal[predictions_2024_df[1]] < ExpectedTotal[predictions_2024_df[2]]
    /\ Len(scoring_results) = 2

\* C20: the leaderboard has exactly one entry per distinct name of the file, and the
\* breakdown shown is that of the entry chosen in the select box.
C20_OneEntryPerName ==
    Ran =>
        /\ \A i \in DOMAIN predictions_2024_df :
              Cardinality({j \in DOMAIN scoring_results :
                              scoring_results[j].Name = predictions_2024_df[i].name}) = 1
        /\ \A j \in DOMAIN scoring_results :
              \E i \in DOMAIN predictions_2024_df :
                  scoring_results[j].Name = predictions_2024_df[i].name
        /\ user_details.pick # 0 => user_details.entry = <<scoring_results[user_details.pick]>>

--------------------------------------------------------------------------
(* The odds script (src/betfair_odds.py) *)

\* Python's None where a string is expected, and "not x" of a string or None.
\* A list that is None or empty is <<>>; a table that is None is <<>>, a table df is <<df>>
None == "None"
Truthy(x) == x \notin {None, ""}

\* sub in s
Contains(s, sub) == FirstIndex(s, sub) # 0

\* 'american football', 'nfl', 'winner', 'super bowl'
AmericanFootballText == <<97, 109, 101, 114, 105, 99, 97, 110, 32, 102, 111, 111, 116, 98, 97, 108, 108>>
NflText == <<110, 102, 108>>
WinnerText == <<119, 105, 110, 110, 101, 114>>
SuperBowlText == <<115, 117, 112, 101, 114, 32, 98, 111, 119, 108>>

\* get_mock_superbowl_odds(): team and odds, the odds in tenths
MockOdds ==
    << <<"Kansas City Chiefs", 55>>,
       <<"Buffalo Bills", 70>>,
       <<"San Francisco 49ers", 80>>,
       <<"Philadelphia Eagles", 90>>,
       <<"Baltimore Ravens", 100>>,
       <<"Detroit Lions", 120>>,
       <<"Green Bay Packers", 150>>,
       <<"Miami Dolphins", 180>>,
       <<"Houston Texans", 200>>,
       <<"Dallas Cowboys", 220>>,
       <<"Los Angeles Chargers", 250>>,
       <<"Cincinnati Bengals", 280>>,
       <<"Pittsburgh Steelers", 300>>,
       <<"Minnesota Vikings", 350>>,
       <<"Atlanta Falcons", 400>>,
       <<"Los Angeles Rams", 450>>,
       <<"Seattle Seahawks", 500>>,
       <<"Tampa Bay Buccaneers", 550>>,
       <<"Indianapolis Colts", 600>>,
       <<"New York Jets", 650>>,
       <<"Cleveland Browns", 700>>,
       <<"Jacksonville Jaguars", 750>>,
       <<"Denver Broncos", 800>>,
       <<"Washington Commanders", 850>>,
       <<"Arizona Cardinals", 900>>,
       <<"Tennessee Titans", 950>>,
       <<"New Orleans Saints", 1000>>,
       <<"Las Vegas Raiders", 1100>>,
       <<"Chicago Bears", 1200>>,
       <<"Carolina Panthers", 1300>>,
       <<"New York Giants", 1400>>,
       <<"New England Patriots", 1500>> >>

CredentialNames == {"BETFAIR_APP_KEY", "BETFAIR_USERNAME", "BETFAIR_PASSWORD"}

\* os.getenv gives None for a variable that is not set; a variable can be set to ''
CredentialValues == {None, "", "x"}

\* BetfairAPI(): no request is sent by the constructor
NewBetfairAPI(env) ==
    [pc |-> "main", session_token |-> None,
     app_key |-> env["BETFAIR_APP_KEY"], username |-> env["BETFAIR_USERNAME"],
     password |-> env["BETFAIR_PASSWORD"],
     american_football_id |-> None, nfl_competition_id |-> None, market_id |-> None,
     market_book |-> <<>>, odds_df |-> <<>>, raised |-> "none"]

\* a test that is satisfied by one credential
AnyCredential(b) == Truthy(b.app_key) \/ Truthy(b.username) \/ Truthy(b.password)

\* if betfair.app_key and betfair.username and betfair.password
CredentialsPresent(b) == Truthy(b.app_key) /\ Truthy(b.username) /\ Truthy(b.password)

\* a requests.post that raises requests.RequestException (no connection, or a status
\* that raise_for_status rejects)
RequestException == [raises |-> "RequestException"]
Json(value) == [raises |-> "none", json |-> value]

\* what the login endpoint can answer: accepted, rejected, or a body with other keys
LoginResponses ==
    { RequestException,
      Json([status |-> "SUCCESS", token |-> "tok"]),
      Json([status |-> "FAIL"]),
      Json([loginStatus |-> "SUCCESS", sessionToken |-> "tok"]) }

\* login(): [returned, raised, session_token]; result['status'] and result['token']
\* raise KeyError, which the except clause (requests.RequestException) does not catch
Login(b, response) ==
    IF response.raises # "none"
    THEN [returned |-> FALSE, raised |-> "none", session_token |-> b.session_token]
    ELSE LET result == response.json IN
         IF "status" \notin DOMAIN result
         THEN [returned |-> FALSE, raised |-> "KeyError", session_token |-> b.session_token]
         ELSE IF result["status"] = "SUCCESS"
         THEN IF "token" \in DOMAIN result
              THEN [returned |-> TRUE, raised |-> "none", session_token |-> result["token"]]
              ELSE [returned |-> FALSE, raised |-> "KeyError", session_token |-> b.session_token]
         ELSE [returned |-> FALSE, raised |-> "none", session_token |-> b.session_token]

\* a find_superbowl_market that logs in again when login() returned False
FindRetryLogin(returned) == IF returned THEN "listEventTypes" ELSE "login"

\* if not self.login(): return None
FindAfterLogin(returned) == IF returned THEN "listEventTypes" ELSE "fallback"

\* the id of the first item the loop stops at (break), None when it stops at none
FirstId(hits) == IF hits = <<>> THEN None ELSE hits[1].id

IsAmericanFootball(event_type) == Contains(Lower(event_type.name), AmericanFootballText)
IsNfl(comp) == Contains(Lower(comp.name), NflText)

\* market.get('marketName', '').lower() holds 'winner' and 'super bowl'
IsSuperBowlWinner(market) ==
    LET market_name == IF "name" \in DOMAIN market THEN Lower(market.name) ELSE <<>> IN
    Contains(market_name, WinnerText) /\ Contains(market_name, SuperBowlText)

\* the answers of listEventTypes, listCompetitions and listMarketCatalogue:
\*   []
\*   1 'Soccer'
\*   1 'Soccer', 6423 'American Football'
\*   6423 'AMERICAN FOOTBALL (US)'
EventTypeLists ==
    { <<>>,
      <<[id |-> "1", name |-> <<83, 111, 99, 99, 101, 114>>]>>,
      <<[id |-> "1", name |-> <<83, 111, 99, 99, 101, 114>>], [id |-> "6423", name |-> <<65, 109, 101, 114, 105, 99, 97, 110, 32, 70, 111, 111, 116, 98, 97, 108, 108>>]>>,
      <<[id |-> "6423", name |-> <<65, 77, 69, 82, 73, 67, 65, 78, 32, 70, 79, 79, 84, 66, 65, 76, 76, 32, 40, 85, 83, 41>>]>> }

\*   []
\*   7 'NCAAF'
\*   12 'NFL 2025/26'
\*   7 'NCAAF', 13 'nfl Preseason', 12 'NFL 2025/26'
CompetitionLists ==
    { <<>>,
      <<[id |-> "7", name |-> <<78, 67, 65, 65, 70>>]>>,
      <<[id |-> "12", name |-> <<78, 70, 76, 32, 50, 48, 50, 53, 47, 50, 54>>]>>,
      <<[id |-> "7", name |-> <<78, 67, 65, 65, 70>>], [id |-> "13", name |-> <<110, 102, 108, 32, 80, 114, 101, 115, 101, 97, 115, 111, 110>>], [id |-> "12", name |-> <<78, 70, 76, 32, 50, 48, 50, 53, 47, 50, 54>>]>> }

\*   []
\*   1.5 'Super Bowl MVP'
\*   1.6 'AFC Winner'
\*   1.7 'Super Bowl Winner'
\*   1.4 (no marketName), 1.8 'SUPER BOWL LX - Winner'
MarketLists ==
    { <<>>,
      <<[id |-> "1.5", name |-> <<83, 117, 112, 101, 114, 32, 66, 111, 119, 108, 32, 77, 86, 80>>]>>,
      <<[id |-> "1.6", name |-> <<65, 70, 67, 32, 87, 105, 110, 110, 101, 114>>]>>,
      <<[id |-> "1.7", name |-> <<83, 117, 112, 101, 114, 32, 66, 111, 119, 108, 32, 87, 105, 110, 110, 101, 114>>]>>,
      <<[id |-> "1.4"], [id |-> "1.8", name |-> <<83, 85, 80, 69, 82, 32, 66, 79, 87, 76, 32, 76, 88, 32, 45, 32, 87, 105, 110, 110, 101, 114>>]>> }

\* the answers of listMarketBook: no market, a market without runners, a market with
\* three runners (back prices in tenths; runner 3 has no back price, runner 2 is removed)
MarketBooks ==
    { <<>>,
      <<[runners |-> <<>>]>>,
      <<[runners |-> <<[selectionId |-> 1, status |-> "ACTIVE", availableToBack |-> <<70, 65>>],
                      [selectionId |-> 2, status |-> "REMOVED", availableToBack |-> <<30>>],
                      [selectionId |-> 3, status |-> "ACTIVE", availableToBack |-> <<>>],
                      [selectionId |-> 4, status |-> "ACTIVE", availableToBack |-> <<55>>]>>]>> }

\* the answers of listMarketCatalogue for the runners: nothing, or the names of 1, 2, 4
RunnerCatalogues ==
    { <<>>,
      <<[runners |-> <<[selectionId |-> 1, runnerName |-> "Buffalo Bills"],
                      [selectionId |-> 2, runnerName |-> "Miami Dolphins"],
                      [selectionId |-> 4, runnerName |-> "Kansas City Chiefs"]>>]>> }

\* the row of odds_data for one runner of the market book; odds is <<price>>, or <<>>
\* for the None of a runner without a back price
OddsRow(runner, names) ==
    LET known == SelectSeq(names, LAMBDA r : r.selectionId = runner.selectionId) IN
    [team |-> IF known = <<>> THEN "Unknown (" \o ToString(runner.selectionId) \o ")"
              ELSE known[Len(known)].runnerName,
     odds |-> SubSeq(runner.availableToBack, 1, IF runner.availableToBack = <<>> THEN 0 ELSE 1),
     status |-> runner.status]

\* ascending odds, a missing price last
OddsBefore(r, q) == r.odds # <<>> /\ (q.odds = <<>> \/ r.odds[1] < q.odds[1])

RECURSIVE InsertOdds(_, _)
InsertOdds(sorted, r) ==
    IF sorted = <<>> THEN <<r>>
    ELSE IF OddsBefore(r, Head(sorted)) THEN <<r>> \o sorted
    ELSE <<Head(sorted)>> \o InsertOdds(Tail(sorted), r)

RECURSIVE SortOdds(_)
\* df.sort_values('odds', ascending=True)
SortOdds(df) ==
    IF df = <<>> THEN <<>>
    ELSE InsertOdds(SortOdds(SubSeq(df, 1, Len(df) - 1)), df[Len(df)])

\* the table get_superbowl_odds builds from the two answers: [raised, df].
\* market_catalogue[0] raises IndexError on an empty answer, and df['status'] raises
\* KeyError on the table of no runners; neither is a requests.RequestException
BuildOdds(market_book, market_catalogue) ==
    IF market_catalogue = <<>> THEN [raised |-> "IndexError", df |-> <<>>]
    ELSE LET odds_data == [k \in 1..Len(market_book[1].runners) |->
                              OddsRow(market_book[1].runners[k], market_catalogue[1].runners)]
         IN  IF odds_data = <<>> THEN [raised |-> "KeyError", df |-> <<>>]
             ELSE LET active == SortOdds(SelectSeq(odds_data, LAMBDA r : r.status = "ACTIVE"))
                  IN  [raised |-> "none",
                       df |-> <<[k \in 1..Len(active) |-> <<active[k].team, active[k].odds>>]>>]

NotStarted ==
    [pc |-> "start", session_token |-> None, app_key |-> None, username |-> None,
     password |-> None, american_football_id |-> None, nfl_competition_id |-> None,
     market_id |-> None, market_book |-> <<>>, odds_df |-> <<>>, raised |-> "none"]

InitFetch ==
    /\ catalog = CatalogFiles[1]
    /\ worksheet = <<>>
    /\ updated_df = <<>>
    /\ clock = 0
    /\ saved = [local |-> {}, remote |-> {}]
    /\ run = NoRun
    /\ table = <<>>
    /\ options = <<>>
    /\ NotLoading
    /\ NotScoring
    /\ environ \in [CredentialNames -> CredentialValues]
    /\ betfair = NotStarted
    /\ requests = <<>>
    /\ csv = <<>>

\* main() from the point where get_superbowl_odds has returned or raised, or where the
\* next request is due: b.pc is the next request, "fallback" (odds_df is None),
\* "save" (odds_df is a table) or "raised"
Proceed(b) ==
    CASE b.pc = "fallback" ->
            /\ betfair' = [b EXCEPT !.pc = "returned"]
            /\ csv' = Append(csv, [table |-> "mock", rows |-> MockOdds])
      [] b.pc = "save" ->
            /\ betfair' = [b EXCEPT !.pc = "returned"]
            /\ csv' = Append(csv, [table |-> "fetched", rows |-> b.odds_df[1]])
      [] OTHER ->
            /\ betfair' = b
            /\ csv' = csv

\* requests.post: the request is on record with the session token of its headers
Post(step, response) ==
    requests' = Append(requests, [step |-> step, token |-> betfair.session_token,
                                  response |-> response])

\* main() is started: the object is built, and without the three credentials the mock
\* table is saved at once
Main ==
    /\ betfair.pc = "start"
    /\ LET b == NewBetfairAPI(environ) IN
       Proceed([b EXCEPT !.pc = IF CredentialsPresent(b) THEN "login" ELSE "fallback"])
    /\ UNCHANGED <<saving, loading, scoring, environ, requests>>

\* find_superbowl_market has no session token and calls login()
PostLogin ==
    /\ betfair.pc = "login"
    /\ \E response \in LoginResponses :
          LET r == Login(betfair, response) IN
          /\ Post("login", response)
          /\ Proceed([betfair EXCEPT
                        !.session_token = r.session_token,
                        !.raised = r.raised,
                        !.pc = IF r.raised # "none" THEN "raised"
                               ELSE FindAfterLogin(r.returned)])
    /\ UNCHANGED <<saving, loading, scoring, environ>>

\* listEventTypes, and the search for American Football in its answer
PostListEventTypes ==
    /\ betfair.pc = "listEventTypes"
    /\ \E response \in {RequestException} \cup {Json(l) : l \in EventTypeLists} :
          LET id == IF response.raises # "none" THEN None
                    ELSE FirstId(SelectSeq(response.json, IsAmericanFootball)) IN
          /\ Post("listEventTypes", response)
          /\ Proceed([betfair EXCEPT
                        !.american_football_id = id,
                        !.pc = IF Truthy(id) THEN "listCompetitions" ELSE "fallback"])
    /\ UNCHANGED <<saving, loading, scoring, environ>>

\* listCompetitions, and the search for the NFL in its answer
PostListCompetitions ==
    /\ betfair.pc = "listCompetitions"
    /\ \E response \in {RequestException} \cup {Json(l) : l \in CompetitionLists} :
          LET id == IF response.raises # "none" THEN None
                    ELSE FirstId(SelectSeq(response.json, IsNfl)) IN
          /\ Post("listCompetitions", response)
          /\ Proceed([betfair EXCEPT
                        !.nfl_competition_id = id,
                        !.pc = IF Truthy(id) THEN "listMarketCatalogue" ELSE "fallback"])
    /\ UNCHANGED <<saving, loading, scoring, environ>>

\* listMarketCatalogue with the text query, and the search for the winner market
PostListMarketCatalogue ==
    /\ betfair.pc = "listMarketCatalogue"
    /\ \E response \in {RequestException} \cup {Json(l) : l \in MarketLists} :
          LET id == IF response.raises # "none" THEN None
                    ELSE FirstId(SelectSeq(response.json, IsSuperBowlWinner)) IN
          /\ Post("listMarketCatalogue", response)
          /\ Proceed([betfair EXCEPT
                        !.market_id = id,
                        !.pc = IF Truthy(id) THEN "listMarketBook" ELSE "fallback"])
    /\ UNCHANGED <<saving, loading, scoring, environ>>

\* listMarketBook
PostListMarketBook ==
    /\ betfair.pc = "listMarketBook"
    /\ \E response \in {RequestException} \cup {Json(l) : l \in MarketBooks} :
          LET market_book == IF response.raises # "none" THEN <<>> ELSE response.json IN
          /\ Post("listMarketBook", response)
          /\ Proceed([betfair EXCEPT
                        !.market_book = market_book,
                        !.pc = IF market_book # <<>> THEN "listRunners" ELSE "fallback"])
    /\ UNCHANGED <<saving, loading, scoring, environ>>

\* listMarketCatalogue for the runner names, and the table built from the two answers
PostListRunners ==
    /\ betfair.pc = "listRunners"
    /\ \E response \in {RequestException} \cup {Json(l) : l \in RunnerCatalogues} :
          LET built == IF response.raises # "none" THEN [raised |-> "none", df |-> <<>>]
                       ELSE BuildOdds(betfair.market_book, response.json) IN
          /\ Post("listRunners", response)
          /\ Proceed([betfair EXCEPT
                        !.odds_df = built.df,
                        !.raised = built.raised,
                        !.pc = IF built.raised # "none" THEN "raised"
                               ELSE IF built.df = <<>> THEN "fallback" ELSE "save"])
    /\ UNCHANGED <<saving, loading, scoring, environ>>

NextFetch ==
    \/ Main
    \/ PostLogin
    \/ PostListEventTypes
    \/ PostListCompetitions
    \/ PostListMarketCatalogue
    \/ PostListMarketBook
    \/ PostListRunners

SpecFetch == InitFetch /\ [][NextFetch]_vars

--------------------------------------------------------------------------
(* The odds script: what is requested, and what is saved *)

\* main() has ended, by returning or by an exception that nothing catches
Ended == betfair # <<>> /\ betfair.pc \in {"returned", "raised"}

\* one of the three environment variables is not set
CredentialAbsent == environ # <<>> /\ \E k \in CredentialNames : environ[k] = None

AllCredentials == environ # <<>> /\ \A k \in CredentialNames : Truthy(environ[k])

MockTable == [table |-> "mock", rows |-> MockOdds]

\* C21: when one of the three credentials is absent no request is ever sent, and
\* main() ends with the mock table saved.
C21_NoCredentialsNoRequest ==
    CredentialAbsent =>
        /\ requests = <<>>
        /\ Ended => betfair.pc = "returned" /\ csv = <<MockTable>>

\* main() has ended with the app key and the user name set and the password not set
C21_Witness ==
    /\ Ended
    /\ environ = [k \in CredentialNames |-> IF k = "BETFAIR_PASSWORD" THEN None ELSE "x"]
    /\ csv = <<MockTable>>
    /\ requests = <<>>

\* a login answer that sets the session token
LoginAccepted(response) ==
    /\ response.raises = "none"
    /\ "status" \in DOMAIN response.json
    /\ response.json["status"] = "SUCCESS"
    /\ "token" \in DOMAIN response.json

\* an answer in which an item of the wanted name is found, letter case ignored
Finds(response, words) ==
    /\ response.raises = "none"
    /\ \E k \in DOMAIN response.json :
          /\ "name" \in DOMAIN response.json[k]
          /\ \A w \in words : Contains(Lower(response.json[k].name), w)

\* what request number k had to find for the run to go on
Wanted(k) ==
    CASE requests[k].step = "listEventTypes" -> {AmericanFootballText}
      [] requests[k].step = "listCompetitions" -> {NflText}
      [] requests[k].step = "listMarketCatalogue" -> {WinnerText, SuperBowlText}
      [] OTHER -> {}

\* request number k is a login that did not log in, or a lookup that found nothing
StepFailed(k) ==
    \/ requests[k].step = "login" /\ ~LoginAccepted(requests[k].response)
    \/ Wanted(k) # {} /\ ~Finds(requests[k].response, Wanted(k))

\* the request that has to come just before a request of this step, and succeed
Before(step) ==
    CASE step = "listEventTypes" -> "login"
      [] step = "listCompetitions" -> "listEventTypes"
      [] step = "listMarketCatalogue" -> "listCompetitions"
      [] step = "listMarketBook" -> "listMarketCatalogue"
      [] step = "listRunners" -> "listMarketBook"
      [] OTHER -> "none"

\* C23: every betting request carries the token of an accepted login made before it;
\* each lookup is requested only straight after the lookup before it has found its
\* item; and when the login fails or a lookup finds nothing, get_superbowl_odds gives
\* None and no later request is made.
C23_StepsInOrder ==
    \A k \in DOMAIN requests :
        /\ requests[k].step # "login" =>
              /\ k > 1
              /\ requests[k - 1].step = Before(requests[k].step)
              /\ ~StepFailed(k - 1)
              /\ \E j \in 1..(k - 1) :
                    /\ requests[j].step = "login"
                    /\ LoginAccepted(requests[j].response)
                    /\ requests[k].token = requests[j].response.json["token"]
        /\ StepFailed(k) =>
              /\ k = Len(requests)
              /\ betfair.pc = "returned"
              /\ betfair.raised = "none"
              /\ betfair.odds_df = <<>>

\* C24: with the three credentials set, main() ends by returning with exactly one
\* table saved: the fetched table when get_superbowl_odds gave one, else the mock
\* table; and at no moment are two tables saved.
C24_SavesExactlyOne ==
    AllCredentials =>
        /\ Len(csv) <= 1
        /\ Ended =>
              /\ betfair.pc = "returned"
              /\ Len(csv) = 1
              /\ csv[1] = IF betfair.odds_df = <<>> THEN MockTable
                          ELSE [table |-> "fetched", rows |-> betfair.odds_df[1]]

--------------------------------------------------------------------------
(* Every outbound request: the worksheet service and the odds script *)

\* save_selection_to_gsheets is called for al: with the first form under each state
\* of the worksheet service, and with a selection that no catalog holds
CallGsheetsOutbound ==
    CallGsheetsWith({AL}, ({FormPicks(CatalogFiles[1], Choices[1])} \X Envs)
                            \cup (BadInputs[1] \X {GoodEnv}))

NextOutbound == CallGsheetsOutbound \/ NextFetch

SpecOutbound == InitFetch /\ [][NextOutbound]_vars

\* C22: within one run of save_selection_to_gsheets the worksheet is read at most
\* once and updated at most once, and within one run of the odds script each request
\* step is sent at most once; so no step is tried again after it has failed.
C22_EachStepAtMostOnce ==
    /\ \A j, k \in DOMAIN run.calls : run.calls[j] = run.calls[k] => j = k
    /\ \A j, k \in DOMAIN requests : requests[j].step = requests[k].step => j = k

\* a save whose worksheet update was refused, and an odds run whose login was refused
C22_Witness ==
    /\ run.op = "gsheets" /\ run.remote = "failed" /\ run.calls = <<"read", "update">>
    /\ Ended
    /\ Len(requests) = 1 /\ StepFailed(1)

====
